---- MODULE Spec2Model ----
(***************************************************************************)
(* Model of src/main.py: the Apple Notes -> Google Keep migration script.  *)
(*                                                                         *)
(* main() runs extract_apple_notes(), save_backup(), the credential        *)
(* prompt and upload_to_google_keep() strictly in sequence.  The model     *)
(* follows the program counter through these functions.  The source store  *)
(* (the two tables the query joins) is the input, drawn in Init; the       *)
(* outcomes of the external calls (sqlite3, open/json.dump, gkeepapi) are  *)
(* chosen when the call is made.                                           *)
(*                                                                         *)
(* Python values are modelled as tagged records so that None, str, bytes   *)
(* and int stay distinguishable: [t |-> "null"], [t |-> "str", v |-> ..],  *)
(* [t |-> "int", v |-> ..], [t |-> "bytes", gz |-> .., v |-> ..].          *)
(* Text is a sequence of characters, a byte string a sequence of byte      *)
(* classes.                                                                *)
(***************************************************************************)
EXTENDS FiniteSets, Integers, Sequences, TLC

\* Bounds of the model: number of rows in each of the two tables.
MaxMeta == 2
MaxBlob == 2

(***************************************************************************)
(* Values                                                                  *)
(***************************************************************************)
NULL == [t |-> "null"]
StrVal(s) == [t |-> "str", v |-> s]
IntVal(n) == [t |-> "int", v |-> n]
\* A byte string.  gz = TRUE: a well-formed gzip stream whose payload is v.
\* gz = FALSE: the raw bytes v, which are not a gzip stream.
BytesVal(gz, v) == [t |-> "bytes", gz |-> gz, v |-> v]

\* Python truthiness of a value (None, empty str, empty bytes and 0 are falsy).
\* A gzip stream is never empty: it has at least its header.
Truthy(x) ==
    CASE x.t = "null" -> FALSE
      [] x.t = "str" -> Len(x.v) > 0
      [] x.t = "int" -> x.v # 0
      [] x.t = "bytes" -> x.gz \/ Len(x.v) > 0

\* Byte classes: printable ASCII, newline, a control character (decodable,
\* not printable), and a byte that is invalid in UTF-8.
PrintableByte == "a"
NewlineByte == "NL"
ControlByte == "x08"
InvalidByte == "xFF"

Untitled == <<"U", "n", "t", "i", "t", "l", "e", "d">>

(***************************************************************************)
(* The source store: sample rows of the two tables.                        *)
(***************************************************************************)
\* Rows of ZICCLOUDSYNCINGOBJECT (Z_PK is the row's position in the table).
MetaRowSamples ==
    { [title |-> StrVal(<<"T">>), snippet |-> StrVal(<<"s">>), deleted |-> IntVal(0),
       created |-> IntVal(1), modified |-> IntVal(2)],
      [title |-> StrVal(<<>>), snippet |-> NULL, deleted |-> IntVal(0),
       created |-> NULL, modified |-> NULL],
      [title |-> NULL, snippet |-> StrVal(<<"s">>), deleted |-> IntVal(0),
       created |-> IntVal(1), modified |-> IntVal(1)],
      [title |-> StrVal(<<"T">>), snippet |-> StrVal(<<"s">>), deleted |-> IntVal(1),
       created |-> IntVal(1), modified |-> IntVal(2)],
      [title |-> StrVal(<<"T">>), snippet |-> StrVal(<<>>), deleted |-> NULL,
       created |-> IntVal(1), modified |-> IntVal(2)] }

\* Values of ZICNOTEDATA.ZDATA: NULL, an empty blob, bytes that are not gzip,
\* and a gzip stream whose payload holds every byte class.
BlobSamples ==
    { NULL,
      BytesVal(FALSE, <<>>),
      BytesVal(FALSE, <<InvalidByte, PrintableByte>>),
      BytesVal(TRUE, <<PrintableByte, InvalidByte, ControlByte, NewlineByte>>) }

\* Rows of ZICNOTEDATA: ZNOTE references a Z_PK (possibly of no row).
BlobRows == [znote : 1..MaxMeta, data : BlobSamples]

SeqsUpTo(S, n) == UNION { [1..k -> S] : k \in 0..n }

VARIABLES
    dbExists,       \* os.path.exists(notes_db)
    meta,           \* table ZICCLOUDSYNCINGOBJECT
    blob,           \* table ZICNOTEDATA
    pc,             \* position of the run
    conn,           \* the sqlite3 connection: "none", "open", "closed"
    rows,           \* extract_apple_notes: rows = cursor.fetchall()
    ri,             \* extract_apple_notes: index of the next row of the for loop
    notes,          \* the list of note records (extract's local, then main's)
    noteSrc,        \* history: Z_PK of the metadata row each record came from
    gzipCalls,      \* history: indices of the rows gzip.decompress was called on
    raisedBy,       \* the call whose exception left main(), or "none"
    backup,         \* the backup files written, each the list json.dump was given
    prompted,       \* credentials were asked for
    netlog,         \* history: calls made on the gkeepapi.Keep object, in order
    ui,             \* upload_to_google_keep: index i of the for loop
    success_count,
    failed_count,
    uploadRet       \* return value of upload_to_google_keep: "none", "True", "False"

vars == <<dbExists, meta, blob, pc, conn, rows, ri, notes, noteSrc, gzipCalls,
          raisedBy, backup, prompted, netlog, ui, success_count, failed_count,
          uploadRet>>

extractVars == <<conn, rows, ri, noteSrc, gzipCalls>>
uploadVars == <<netlog, ui, success_count, failed_count, uploadRet>>
storeVars == <<dbExists, meta, blob>>

Init ==
    /\ dbExists \in BOOLEAN
    /\ IF dbExists
         THEN /\ meta \in SeqsUpTo(MetaRowSamples, MaxMeta)
              /\ blob \in SeqsUpTo(BlobRows, MaxBlob)
         ELSE /\ meta = <<>>
              /\ blob = <<>>
    /\ pc = "extract_check"
    /\ conn = "none"
    /\ rows = <<>>
    /\ ri = 1
    /\ notes = <<>>
    /\ noteSrc = <<>>
    /\ gzipCalls = {}
    /\ raisedBy = "none"
    /\ backup = <<>>
    /\ prompted = FALSE
    /\ netlog = <<>>
    /\ ui = 1
    /\ success_count = 0
    /\ failed_count = 0
    /\ uploadRet = "none"

(***************************************************************************)
(* extract_apple_notes                                                     *)
(***************************************************************************)

\* The WHERE clause: ZTITLE1 IS NOT NULL AND ZMARKEDFORDELETION = 0
\* (a NULL flag makes the comparison NULL, which does not select the row).
WhereClause(m) == m.title # NULL /\ m.deleted = IntVal(0)

\* The rows the LEFT JOIN yields for metadata row pk: one per blob row whose
\* ZNOTE equals Z_PK, or a single row with data NULL when there is none.
JoinRows(pk) ==
    LET m == meta[pk]
        matches == SelectSeq(blob, LAMBDA b : b.znote = pk)
        Row(d) == [pk |-> pk, title |-> m.title, snippet |-> m.snippet,
                   data |-> d, created |-> m.created, modified |-> m.modified]
    IN IF matches = <<>>
         THEN << Row(NULL) >>
         ELSE [k \in 1..Len(matches) |-> Row(matches[k].data)]

RECURSIVE QueryFrom(_)
QueryFrom(pk) ==
    IF pk > Len(meta) THEN <<>>
    ELSE (IF WhereClause(meta[pk]) THEN JoinRows(pk) ELSE <<>>) \o QueryFrom(pk + 1)

\* cursor.execute(query); cursor.fetchall()
QueryResult == QueryFrom(1)

\* gzip.decompress(data): the payload of a gzip stream, b"" for empty input,
\* an exception for anything else.
GzipDecompress(data) ==
    IF data.t = "bytes" /\ (data.gz \/ data.v = <<>>)
      THEN [ok |-> TRUE, v |-> data.v]
      ELSE [ok |-> FALSE, v |-> <<>>]

\* bytes.decode('utf-8', errors='ignore'): invalid bytes are dropped.
DecodeIgnore(bs) == SelectSeq(bs, LAMBDA b : b # InvalidByte)

\* ''.join(char for char in content if char.isprintable() or char in '\n\r\t')
CleanUp(cs) == SelectSeq(cs, LAMBDA c : c = PrintableByte \/ c = NewlineByte)

\* snippet if snippet else ""
SnippetOrEmpty(snippet) == IF Truthy(snippet) THEN snippet ELSE StrVal(<<>>)

\* `if data:` - whether the decompression branch is taken.
TakesBlobBranch(data) == Truthy(data)

DecompressFallbackEmpty(snippet) == StrVal(<<>>)

\* What the except branch assigns to content.
DecompressFallback(snippet) == SnippetOrEmpty(snippet)

NoBlobContentEmpty(snippet) == StrVal(<<>>)

\* What the else branch (no blob) assigns to content.
NoBlobContent(snippet) == SnippetOrEmpty(snippet)

\* The content of the record built from a row.
NoteContent(row) ==
    IF TakesBlobBranch(row.data)
      THEN LET d == GzipDecompress(row.data)
           IN IF d.ok THEN StrVal(CleanUp(DecodeIgnore(d.v)))
                      ELSE DecompressFallback(row.snippet)
      ELSE NoBlobContent(row.snippet)

TitleAsStored(title) == title

\* title or 'Untitled'
TitleOrUntitled(title) == IF Truthy(title) THEN title ELSE StrVal(Untitled)

MakeNote(row) ==
    [title |-> TitleOrUntitled(row.title), content |-> NoteContent(row),
     created |-> row.created, modified |-> row.modified]

\* if not os.path.exists(notes_db): return []
CheckPath ==
    /\ pc = "extract_check"
    /\ IF dbExists
         THEN /\ pc' = "extract_connect"
              /\ notes' = notes
         ELSE /\ pc' = "main_check"
              /\ notes' = <<>>
    /\ UNCHANGED <<storeVars, extractVars, raisedBy, backup, prompted, uploadVars>>

\* conn = sqlite3.connect(notes_db); cursor = conn.cursor()
Connect ==
    /\ pc = "extract_connect"
    /\ \/ /\ conn' = "open"
          /\ pc' = "extract_query"
          /\ raisedBy' = raisedBy
       \/ /\ conn' = conn
          /\ pc' = "main_raised"
          /\ raisedBy' = "connect"
    /\ UNCHANGED <<storeVars, rows, ri, notes, noteSrc, gzipCalls, backup,
                   prompted, uploadVars>>

\* cursor.execute(query); rows = cursor.fetchall(); notes = []
\* sqlite3 raises when the file is not a database, lacks the tables or is locked.
ExecuteQuery ==
    /\ pc = "extract_query"
    /\ \/ /\ rows' = QueryResult
          /\ ri' = 1
          /\ notes' = <<>>
          /\ pc' = IF QueryResult = <<>> THEN "extract_close" ELSE "extract_loop"
          /\ raisedBy' = raisedBy
       \/ /\ pc' = "main_raised"
          /\ raisedBy' = "execute"
          /\ UNCHANGED <<rows, ri, notes>>
    /\ UNCHANGED <<storeVars, conn, noteSrc, gzipCalls, backup, prompted, uploadVars>>

\* One iteration of `for row in rows`.
ProcessRow ==
    /\ pc = "extract_loop"
    /\ LET row == rows[ri]
       IN /\ notes' = Append(notes, MakeNote(row))
          /\ noteSrc' = Append(noteSrc, row.pk)
          /\ gzipCalls' = IF TakesBlobBranch(row.data)
                            THEN gzipCalls \cup {ri} ELSE gzipCalls
    /\ ri' = ri + 1
    /\ pc' = IF ri = Len(rows) THEN "extract_close" ELSE "extract_loop"
    /\ UNCHANGED <<storeVars, conn, rows, raisedBy, backup, prompted, uploadVars>>

\* conn.close(); return notes.  The locals go out of scope and the store is
\* never read again, so the model forgets both.
CloseConn ==
    /\ pc = "extract_close"
    /\ conn' = "closed"
    /\ pc' = "main_check"
    /\ rows' = <<>>
    /\ ri' = 1
    /\ noteSrc' = <<>>
    /\ gzipCalls' = {}
    /\ meta' = <<>>
    /\ blob' = <<>>
    /\ UNCHANGED <<dbExists, notes, raisedBy, backup, prompted, uploadVars>>

(***************************************************************************)
(* save_backup                                                             *)
(***************************************************************************)

\* open(backup_file, 'w') / json.dump(notes, f): writes the file or raises
\* (disk full, permission denied).  main() has no handler, so the exception
\* leaves main().
SaveBackup ==
    /\ pc = "main_backup"
    /\ \/ /\ backup' = Append(backup, notes)
          /\ pc' = "main_prompt"
          /\ raisedBy' = raisedBy
       \/ /\ backup' = backup
          /\ pc' = "main_raised"
          /\ raisedBy' = "save_backup"
    /\ UNCHANGED <<storeVars, extractVars, notes, prompted, uploadVars>>

(***************************************************************************)
(* upload_to_google_keep                                                   *)
(***************************************************************************)

Call(op, arg, ok) == [op |-> op, arg |-> arg, ok |-> ok]

LoginFailureIgnored == "upload_loop"

\* Where the function goes after keep.login raised.
AfterLoginFailure == "main_finish"

\* keep.login(username, password): on an exception, print guidance and
\* return False; otherwise set the counters to 0 and enter the loop.
Login ==
    /\ pc = "upload_login"
    /\ \E ok \in BOOLEAN :
        /\ netlog' = Append(netlog, Call("login", 0, ok))
        /\ IF ok
             THEN /\ pc' = IF notes = <<>> THEN "upload_sync" ELSE "upload_loop"
                  /\ uploadRet' = uploadRet
             ELSE /\ pc' = AfterLoginFailure
                  /\ uploadRet' = "False"
    /\ ui' = 1
    /\ success_count' = 0
    /\ failed_count' = 0
    /\ UNCHANGED <<storeVars, extractVars, notes, raisedBy, backup, prompted>>

BreakOnFailure(i, ok) ==
    IF i = Len(notes) \/ ~ok THEN "upload_sync" ELSE "upload_loop"

\* Where the loop goes after the createNote call for record i.
AfterCreateNote(i, ok) == IF i = Len(notes) THEN "upload_sync" ELSE "upload_loop"

\* One iteration of `for i, note_data in enumerate(notes, 1)`:
\* keep.createNote(title, text) returns (success_count += 1) or raises
\* (failed_count += 1).
CreateNote ==
    /\ pc = "upload_loop"
    /\ \E ok \in BOOLEAN :
        /\ netlog' = Append(netlog, Call("createNote", ui, ok))
        /\ success_count' = IF ok THEN success_count + 1 ELSE success_count
        /\ failed_count' = IF ok THEN failed_count ELSE failed_count + 1
        /\ pc' = AfterCreateNote(ui, ok)
    /\ ui' = ui + 1
    /\ UNCHANGED <<storeVars, extractVars, notes, raisedBy, backup, prompted,
                   uploadRet>>

SyncFailureFails(ok) == IF ok THEN "True" ELSE "False"

\* What upload_to_google_keep returns after the sync call.
SyncReturn(ok) == "True"

\* keep.sync() in its own try/except, then print the tally and return True.
Sync ==
    /\ pc = "upload_sync"
    /\ \E ok \in BOOLEAN :
        /\ netlog' = Append(netlog, Call("sync", 0, ok))
        /\ uploadRet' = SyncReturn(ok)
    /\ pc' = "main_finish"
    /\ UNCHANGED <<storeVars, extractVars, notes, raisedBy, backup, prompted,
                   ui, success_count, failed_count>>

(***************************************************************************)
(* main                                                                    *)
(***************************************************************************)

UploadBeforeBackup(ns) == IF ns = <<>> THEN "main_returned" ELSE "main_prompt"

NoEarlyReturn(ns) == "main_backup"

\* Where main goes with the extracted list: `if not notes: return`.
AfterExtract(ns) == IF ns = <<>> THEN "main_returned" ELSE "main_backup"

MainCheckNotes ==
    /\ pc = "main_check"
    /\ pc' = AfterExtract(notes)
    /\ UNCHANGED <<storeVars, extractVars, notes, raisedBy, backup, prompted,
                   uploadVars>>

\* input("Enter your Google email: "), getpass.getpass(...)
PromptCredentials ==
    /\ pc = "main_prompt"
    /\ prompted' = TRUE
    /\ pc' = "upload_login"
    /\ UNCHANGED <<storeVars, extractVars, notes, raisedBy, backup, uploadVars>>

\* The return value of upload_to_google_keep is discarded; main prints
\* "Migration complete!" and returns.
MainFinish ==
    /\ pc = "main_finish"
    /\ pc' = "main_returned"
    /\ UNCHANGED <<storeVars, extractVars, notes, raisedBy, backup, prompted,
                   uploadVars>>

Next ==
    \/ CheckPath
    \/ Connect
    \/ ExecuteQuery
    \/ ProcessRow
    \/ CloseConn
    \/ MainCheckNotes
    \/ SaveBackup
    \/ PromptCredentials
    \/ Login
    \/ CreateNote
    \/ Sync
    \/ MainFinish

Spec == Init /\ [][Next]_vars

TypeOK ==
    /\ pc \in {"extract_check", "extract_connect", "extract_query", "extract_loop",
               "extract_close", "main_check", "main_backup", "main_prompt",
               "upload_login", "upload_loop", "upload_sync", "main_finish",
               "main_returned", "main_raised"}
    /\ conn \in {"none", "open", "closed"}
    /\ raisedBy \in {"none", "connect", "execute", "save_backup"}
    /\ uploadRet \in {"none", "True", "False"}
    /\ Len(noteSrc) = ri - 1

(***************************************************************************)
(* Properties                                                              *)
(***************************************************************************)

ExtractPCs == {"extract_check", "extract_connect", "extract_query",
               "extract_loop", "extract_close"}

\* The for loop of extract_apple_notes has started: rows and notes are both live.
InRowLoop == pc \in {"extract_loop", "extract_close"}

UploadOverPCs == {"main_finish", "main_returned"}

CallsOf(op) == { k \in 1..Len(netlog) : netlog[k].op = op }
CreateCalls == SelectSeq(netlog, LAMBDA c : c.op = "createNote")
LoginOk == netlog # <<>> /\ netlog[1].op = "login" /\ netlog[1].ok
LoginFailed == netlog # <<>> /\ netlog[1].op = "login" /\ ~netlog[1].ok
Returned(cc) == { k \in 1..Len(cc) : cc[k].ok }
Raised(cc) == { k \in 1..Len(cc) : ~cc[k].ok }

\* The content a record falls back to: the snippet, "" when it is absent.
IsSnippetFallback(content, snippet) ==
    /\ snippet = NULL => content = StrVal(<<>>)
    /\ snippet # NULL => content = snippet

\* The blob of a row is present and gzip.decompress raises on it.
FailsDecompression(data) == data.t = "bytes" /\ data.v # <<>> /\ ~data.gz

\* C1: if login raises, no createNote and no sync call is made and
\* upload_to_google_keep returns False; if login succeeds it returns True,
\* however many per-record uploads fail.
C1_AuthFailureAborts ==
    /\ LoginFailed =>
          /\ Len(netlog) = 1
          /\ uploadRet = "False"
          /\ success_count = 0 /\ failed_count = 0
    /\ (LoginOk /\ pc \in UploadOverPCs) => uploadRet = "True"
    /\ uploadRet = "False" => LoginFailed

C1_Witness ==
    /\ LoginFailed
    /\ Len(notes) >= 2
    /\ pc = "main_returned"

\* C2: after a successful login exactly one createNote attempt is made per
\* record, in sequence order, without early termination or retry;
\* success_count is the number of calls that returned, failed_count the
\* number that raised, and they sum to N.
C2_OneAttemptPerRecord ==
    LET cc == CreateCalls
    IN /\ \A k \in 1..Len(cc) : cc[k].arg = k
       /\ Len(cc) <= Len(notes)
       /\ success_count = Cardinality(Returned(cc))
       /\ failed_count = Cardinality(Raised(cc))
       /\ (LoginOk /\ pc \in UploadOverPCs \cup {"upload_sync"}) =>
             /\ Len(cc) = Len(notes)
             /\ success_count + failed_count = Len(notes)

C2_Witness ==
    /\ pc = "main_returned"
    /\ Len(notes) >= 2
    /\ Raised(CreateCalls) = {1}
    /\ success_count = Len(notes) - 1
    /\ failed_count = 1

\* C3: no network call (login, createNote, sync) and no credential prompt
\* happens before save_backup has written the file; if the write raises, the
\* exception leaves main and the run ends without prompt, login or upload.
C3_BackupBeforeNetwork ==
    /\ (netlog # <<>> \/ prompted) => backup = <<notes>>
    /\ raisedBy = "save_backup" =>
          /\ pc = "main_raised"
          /\ backup = <<>>
          /\ ~prompted
          /\ netlog = <<>>
    /\ pc = "main_raised" => ~ENABLED Next

C3_Witness ==
    /\ raisedBy = "save_backup"
    /\ Len(notes) >= 1
    /\ pc = "main_raised"

\* C4: if the database path does not exist or the extracted sequence is
\* empty, main returns early: no backup file, no credential prompt, no
\* login, createNote or sync.
C4_EarlyReturn ==
    /\ ~dbExists =>
          /\ pc \in {"extract_check", "main_check", "main_returned"}
          /\ conn = "none"
          /\ notes = <<>>
    /\ (pc \notin ExtractPCs /\ notes = <<>>) =>
          /\ pc \in {"main_check", "main_returned", "main_raised"}
          /\ backup = <<>>
          /\ ~prompted
          /\ netlog = <<>>

C4_Witness ==
    /\ dbExists
    /\ conn = "closed"
    /\ notes = <<>>
    /\ pc = "main_returned"

C4_WitnessNoDatabase ==
    /\ ~dbExists
    /\ pc = "main_returned"

\* C5: when the row loop has finished, every metadata row with a non-null
\* title and deletion flag 0 has produced exactly one record, and every
\* other metadata row none, whatever the two tables hold.
C5_OneRecordPerRow ==
    pc = "extract_close" =>
        \A pk \in 1..Len(meta) :
            Cardinality({ i \in 1..Len(noteSrc) : noteSrc[i] = pk })
              = IF meta[pk].title # NULL /\ meta[pk].deleted = IntVal(0)
                  THEN 1 ELSE 0

\* C6: a row whose blob is present and fails decompression still yields a
\* record, whose content is the snippet ("" when the snippet is absent), and
\* the rows after it are still extracted.
C6_DecompressFailureRecovered ==
    InRowLoop =>
        /\ Len(notes) = ri - 1
        /\ pc = "extract_close" <=> Len(notes) = Len(rows)
        /\ \A i \in 1..Len(notes) :
              FailsDecompression(rows[i].data) =>
                  /\ i \in gzipCalls
                  /\ IsSnippetFallback(notes[i].content, rows[i].snippet)

C6_Witness ==
    /\ pc = "extract_close"
    /\ Len(notes) >= 2
    /\ FailsDecompression(rows[1].data)
    /\ rows[1].snippet # NULL
    /\ notes[1].content = rows[1].snippet

\* C7: after a successful login exactly one sync call is made, after the
\* createNote attempt for the last record; a failing sync leaves the two
\* counters as tallied and upload_to_google_keep still returns True.
C7_SingleFinalSync ==
    LET syncs == CallsOf("sync")
        cc == CreateCalls
    IN /\ Cardinality(syncs) <= 1
       /\ (LoginOk /\ pc \in UploadOverPCs) => Cardinality(syncs) = 1
       /\ \A k \in syncs :
             /\ LoginOk
             /\ k = Len(netlog)
             /\ k = Len(notes) + 2
             /\ \A j \in 1..Len(notes) : netlog[j + 1] \in
                   { [op |-> "createNote", arg |-> j, ok |-> b] : b \in BOOLEAN }
             /\ success_count = Cardinality(Returned(cc))
             /\ failed_count = Cardinality(Raised(cc))
             /\ uploadRet = "True"

C7_Witness ==
    /\ pc = "main_returned"
    /\ \E k \in CallsOf("sync") : ~netlog[k].ok
    /\ success_count >= 1
    /\ failed_count >= 1
    /\ uploadRet = "True"

IsWellFormedRecord(n) ==
    /\ n.title.t = "str"
    /\ Len(n.title.v) > 0
    /\ n.content.t = "str"

\* C8: every record produced by extract_apple_notes, and so every record
\* save_backup writes and upload_to_google_keep sends, has a non-empty
\* title and a content that is a string.
C8_RecordsWellFormed ==
    /\ \A i \in 1..Len(notes) : IsWellFormedRecord(notes[i])
    /\ \A f \in 1..Len(backup) :
          \A i \in 1..Len(backup[f]) : IsWellFormedRecord(backup[f][i])
    /\ \A k \in CallsOf("createNote") :
          /\ netlog[k].arg \in 1..Len(notes)
          /\ IsWellFormedRecord(notes[netlog[k].arg])

C8_Witness ==
    /\ pc = "main_returned"
    /\ backup # <<>>
    /\ \E k \in CallsOf("createNote") :
          /\ notes[netlog[k].arg].title = StrVal(Untitled)
          /\ notes[netlog[k].arg].content = StrVal(<<>>)

\* C9: a row whose blob is absent yields a record whose content is the
\* snippet, or "" when the snippet is absent too, and gzip.decompress is not
\* called for it.
C9_NoBlobUsesSnippet ==
    InRowLoop =>
        \A i \in 1..Len(notes) :
            rows[i].data = NULL =>
                /\ IsSnippetFallback(notes[i].content, rows[i].snippet)
                /\ i \notin gzipCalls

C9_Witness ==
    /\ pc = "extract_close"
    /\ \E i \in 1..Len(notes) :
          /\ rows[i].data = NULL
          /\ rows[i].snippet = StrVal(<<"s">>)
          /\ notes[i].content = StrVal(<<"s">>)
    /\ \E i \in 1..Len(notes) :
          /\ rows[i].data = NULL
          /\ rows[i].snippet = NULL
          /\ notes[i].content = StrVal(<<>>)

\* C10: once extract_apple_notes has been left after opening the
\* connection, by return or by exception, the connection is closed.
C10_ConnClosedOnExit ==
    (pc \notin ExtractPCs /\ conn # "none") => conn = "closed"

====
